---- MODULE Spec2Model ----
(***************************************************************************)
(* Model of bqml/pipeline/main.py: one run of trigger_workflow, with the   *)
(* Measurement Protocol batch driver (write_to_ga_via_mp, send_mp_hit,     *)
(* prepare_payloads_for_batch_request), the data-import path and the two   *)
(* side effects wrapped by retrying.retry (write_to_bq_logs, send_email).  *)
(***************************************************************************)
EXTENDS Integers, Sequences, FiniteSets, TLC

(***************************************************************************)
(* Bounds of the model and constants of the program.                       *)
(***************************************************************************)
\* largest number of rows the query result (the dataframe) may hold
MaxRows == 41

\* main.py:216  "if i%20 == 0"
BatchSize == 20

\* main.py:244 / 264  stop_max_attempt_number=5
stop_max_attempt_number == 5

\* main.py:245 / 265  wait_exponential_multiplier=1000
wait_exponential_multiplier == 1000

\* main.py:245 / 265  wait_exponential_max=10000
wait_exponential_max == 10000

\* main.py:295  timestamp_utc, taken once at the start of the run
timestamp_utc == "2020-01-01 00:00:00"

\* status codes the collection endpoint may answer with
StatusCodes == {199, 200, 299, 300}

\* status codes the email service may answer with (main.py:283)
EmailStatusCodes == {202, 500}

\* values of params.GA_IMPORT_METHOD: the two known modes and an unknown one
ImportMethods == {"di", "mp", "xx"}

(***************************************************************************)
(* Exceptions: the text is str(e); origin and attempt identify the object. *)
(***************************************************************************)
NoExc == [text |-> "", origin |-> "none", attempt |-> 0]

Exc(text, origin, attempt) == [text |-> text, origin |-> origin, attempt |-> attempt]

\* text of the TypeError raised by  "..." + failed_requests  (str + list)
ConcatTypeErrorText == "can only concatenate str (not \"list\") to str"

\* main.py:306
MethodNotFoundText == "GA Export Method not found."

\* main.py:284
EmailNotSentText == "Email not sent."

(***************************************************************************)
(* Python dicts as insertion-ordered sequences of <<key, value>> pairs.    *)
(***************************************************************************)
HasKey(d, k) == \E j \in 1..Len(d) : d[j][1] = k

\* d[k] = v : an existing key keeps its position, a new key goes last
DictSet(d, k, v) ==
  IF HasKey(d, k)
    THEN [j \in 1..Len(d) |-> IF d[j][1] = k THEN <<k, v>> ELSE d[j]]
    ELSE Append(d, <<k, v>>)

RECURSIVE DictUpdate(_, _)
DictUpdate(d, items) ==
  IF items = <<>> THEN d
  ELSE DictUpdate(DictSet(d, Head(items)[1], Head(items)[2]), Tail(items))

\* params.GA_MP_STANDARD_HIT_DETAILS: default hit fields, some of them empty
GA_MP_STANDARD_HIT_DETAILS ==
  << <<"v", "1">>, <<"t", "event">>, <<"ni", "">>, <<"ea", "">>, <<"ds", "big query">> >>

\* the row of the dataframe with index r: its columns in column order
Row(r) == << <<"cid", ToString(r)>>, <<"ea", "predict">> >>

\* the dataframe read_from_bq returns for a result of n rows
DataFrame(n) == [r \in 1..n |-> Row(r)]

\* an iteration that goes on filling the mapping of the previous iteration
NewHit_stale(previous) == previous

\* main.py:205  "hit_data = {}": the mapping an iteration starts from,
\* whatever the previous iteration built
NewHit(previous) == <<>>

\* main.py:205-212  hit_data of one row: the defaults with a truthy value,
\* then every column of the row
HitFrom(previous, hit_defaults, bq_results_row) ==
  DictUpdate(DictUpdate(NewHit(previous),
                        SelectSeq(hit_defaults, LAMBDA kv : kv[2] # "")),
             bq_results_row)

\* main.py:205-212  hit_data of one row under the configured defaults
HitData(bq_results_row) == HitFrom(<<>>, GA_MP_STANDARD_HIT_DETAILS, bq_results_row)

(***************************************************************************)
(* prepare_payloads_for_batch_request                                      *)
(***************************************************************************)
\* the keys in use, in ascending lexicographic order
KeysAscending == <<"a", "b", "cid", "ds", "ea", "ni", "t", "v">>

KeyRank(k) == CHOOSE j \in 1..Len(KeysAscending) : KeysAscending[j] = k

\* insert pair kv into a sequence sorted by key, after the pairs not greater
RECURSIVE InsertSorted(_, _)
InsertSorted(s, kv) ==
  IF s = <<>> THEN <<kv>>
  ELSE IF KeyRank(kv[1]) < KeyRank(Head(s)[1]) THEN <<kv>> \o s
  ELSE <<Head(s)>> \o InsertSorted(Tail(s), kv)

\* the pairs left in insertion order
SortedByKey_unsorted(pairs) == pairs

\* sorted(pairs, key=lambda t: t[0])
RECURSIVE SortedByKey(_)
SortedByKey(pairs) ==
  IF pairs = <<>> THEN <<>>
  ELSE InsertSorted(SortedByKey(SubSeq(pairs, 1, Len(pairs) - 1)), pairs[Len(pairs)])

\* urllib.parse.quote_plus on the values in use: a space becomes "+"
quote_plus(s) == IF s = "big query" THEN "big+query" ELSE s

\* sep.join(strs)
RECURSIVE Join(_, _)
Join(strs, sep) ==
  IF strs = <<>> THEN ""
  ELSE IF Len(strs) = 1 THEN strs[1]
  ELSE strs[1] \o sep \o Join(Tail(strs), sep)

\* urllib.parse.urlencode of a list of pairs
urlencode(pairs) ==
  Join([j \in 1..Len(pairs) |-> quote_plus(pairs[j][1]) \o "=" \o quote_plus(pairs[j][2])], "&")

\* main.py:189-191
prepare_payloads_for_batch_request(payloads) ==
  Join([j \in 1..Len(payloads) |-> urlencode(SortedByKey(payloads[j]))], "\n")

(***************************************************************************)
(* send_mp_hit: classification of a response by its status code.           *)
(***************************************************************************)
\* range(200, 299)
SuccessRange == 200..298

\* send_mp_hit that forgets the payload of a failed submission
send_mp_hit_drop(payload_send, succ, fail, status_code) ==
  IF status_code \notin SuccessRange
    THEN <<succ, fail>>
    ELSE <<Append(succ, payload_send), fail>>

\* main.py:165-174  returns <<success_requests, failed_requests>>
send_mp_hit(payload_send, succ, fail, status_code) ==
  IF status_code \notin SuccessRange
    THEN <<succ, Append(fail, payload_send)>>
    ELSE <<Append(succ, payload_send), fail>>

(***************************************************************************)
(* retrying.retry: stop and wait functions configured at main.py:244-245.  *)
(***************************************************************************)
Min(a, b) == IF a < b THEN a ELSE b

\* stop_after_attempt that allows two attempts more
stop_late(previous_attempt_number) == previous_attempt_number >= stop_max_attempt_number + 2

\* stop_after_attempt with the comparison off by one
stop_gt(previous_attempt_number) == previous_attempt_number > stop_max_attempt_number

\* stop_after_attempt
stop(previous_attempt_number) == previous_attempt_number >= stop_max_attempt_number

\* exponential_sleep with the exponent counted from the second attempt
exponential_sleep_from0(previous_attempt_number) ==
  Min(wait_exponential_multiplier * 2 ^ (previous_attempt_number - 1), wait_exponential_max)

\* exponential_sleep: multiplier * 2^previous_attempt_number, capped
exponential_sleep(previous_attempt_number) ==
  Min(wait_exponential_multiplier * 2 ^ previous_attempt_number, wait_exponential_max)

\* str(response.status_code)[0]
RECURSIVE FirstDigit(_)
FirstDigit(n) == IF n < 10 THEN n ELSE FirstDigit(n \div 10)

(***************************************************************************)
(* State of one run of trigger_workflow.                                   *)
(***************************************************************************)
VARIABLES
  GA_IMPORT_METHOD,   \* params.GA_IMPORT_METHOD
  ENABLED_LOGGING,    \* params.ENABLE_BQ_LOGGING
  ENABLED_EMAIL,      \* params.ENABLE_SENDGRID_EMAIL_REPORTING
  df,                 \* the rows the prediction query yields
  pc,                 \* position of the run in trigger_workflow
  row_index,          \* number of rows df.iterrows() has yielded
  i,                  \* write_to_ga_via_mp: hits in the batch being built
  payload_list,       \* write_to_ga_via_mp: the batch being built
  success_requests,   \* payloads answered with a status in range(200, 299)
  failed_requests,    \* payloads answered with any other status
  exc,                \* the exception e caught at main.py:311
  attempt_number,     \* retrying: number of the attempt about to be made
  slept,              \* retrying: the sleep made before that attempt, in ms
  calls,              \* invocations of write_to_bq_logs / send_email so far
  batches,            \* hit lists handed to the network, in submission order
  last_status,        \* status code of the latest response, 0 if it raised
  upload_calls,       \* number of uploadData calls made (data import mode)
  result,             \* the string trigger_workflow returned
  escaped,            \* the exception that left trigger_workflow
  hit_details,        \* hit building: the value of GA_MP_STANDARD_HIT_DETAILS
  records,            \* hit building: the rows handed to the loop
  hits,               \* hit building: the hits appended so far (payload_list)
  lines,              \* encoder: its result on each one-hit list
  encoded,            \* encoder: its result on the list of all hits
  enc_pc              \* position of the hit building and encoding

vars == <<GA_IMPORT_METHOD, ENABLED_LOGGING, ENABLED_EMAIL, df, pc, row_index, i,
          payload_list, success_requests, failed_requests, exc, attempt_number,
          slept, calls, batches, last_status, upload_calls, result, escaped,
          hit_details, records, hits, lines, encoded, enc_pc>>

config == <<GA_IMPORT_METHOD, ENABLED_LOGGING, ENABLED_EMAIL, df>>

encoder == <<hit_details, records, hits, lines, encoded, enc_pc>>

mp_state == <<row_index, i, payload_list, success_requests, failed_requests,
              batches, last_status>>

NoResult == "<none>"

Init ==
  /\ GA_IMPORT_METHOD \in ImportMethods
  /\ ENABLED_LOGGING \in BOOLEAN
  /\ ENABLED_EMAIL \in BOOLEAN
  /\ \E n \in 0..MaxRows : df = DataFrame(n)
  /\ pc = "read_from_bq"
  /\ row_index = 0
  /\ i = 0
  /\ payload_list = <<>>
  /\ success_requests = <<>>
  /\ failed_requests = <<>>
  /\ exc = NoExc
  /\ attempt_number = 0
  /\ slept = 0
  /\ calls = <<>>
  /\ batches = <<>>
  /\ last_status = 0
  /\ upload_calls = 0
  /\ result = NoResult
  /\ escaped = NoExc
  /\ hit_details = GA_MP_STANDARD_HIT_DETAILS
  /\ records = <<>>
  /\ hits = <<>>
  /\ lines = <<>>
  /\ encoded = ""
  /\ enc_pc = "off"

(***************************************************************************)
(* Control transfer inside trigger_workflow.                               *)
(***************************************************************************)
\* one attempt counter shared by the decorated functions
StartRetry_shared(p) ==
  /\ pc' = p
  /\ attempt_number' = IF attempt_number = 0 THEN 1 ELSE attempt_number
  /\ slept' = slept

\* a call of a function decorated with @retry begins: attempt 1, no sleep
StartRetry(p) == pc' = p /\ attempt_number' = 1 /\ slept' = 0

Goto(p) == pc' = p /\ UNCHANGED <<attempt_number, slept>>

\* an except block that sends the alert whether or not alerting is enabled
EnterExcept_always_email(e) ==
  /\ exc' = e
  /\ escaped' = escaped
  /\ IF ENABLED_LOGGING THEN StartRetry("log_error") ELSE StartRetry("send_email")

\* an exception raised inside the try block that no handler catches
EnterExcept_uncaught(e) ==
  /\ escaped' = e
  /\ exc' = exc
  /\ Goto("raised")

\* main.py:311-316  an exception raised inside the try block is caught
EnterExcept(e) ==
  /\ exc' = e
  /\ escaped' = escaped
  /\ IF ENABLED_LOGGING THEN StartRetry("log_error")
     ELSE IF ENABLED_EMAIL THEN StartRetry("send_email")
     ELSE Goto("return_error")

\* a failure of a side effect that is set aside: the except block goes on
Propagate_isolated(e) ==
  /\ UNCHANGED <<exc, escaped>>
  /\ IF pc = "log_error" /\ ENABLED_EMAIL THEN StartRetry("send_email")
     ELSE Goto("return_error")

\* an exception raised in the except block leaves trigger_workflow
Propagate(e) ==
  /\ escaped' = e
  /\ exc' = exc
  /\ Goto("raised")

\* main.py:307-308  the flow is over without an exception
FlowDone ==
  /\ UNCHANGED <<exc, escaped>>
  /\ IF ENABLED_LOGGING THEN StartRetry("log_success") ELSE Goto("return_success")

\* a dispatch whose last branch is the batch-submission mode
DispatchTarget_default_mp(method) ==
  CASE method = "di" -> "write_df_to_csv"
    [] OTHER -> "mp_loop"

\* main.py:298-306  the branch the mode selects
DispatchTarget(method) ==
  CASE method = "di" -> "write_df_to_csv"
    [] method = "mp" -> "mp_loop"
    [] OTHER -> "raise"

(***************************************************************************)
(* The flow: read, dispatch, data import.                                  *)
(***************************************************************************)
\* main.py:297-306  read_from_bq and the dispatch on GA_IMPORT_METHOD
ReadFromBq ==
  /\ pc = "read_from_bq"
  /\ \/ EnterExcept(Exc("BigQuery query failed", "read_from_bq", 0))
     \/ /\ DispatchTarget(GA_IMPORT_METHOD) = "raise"
        /\ EnterExcept(Exc(MethodNotFoundText, "trigger_workflow", 0))
     \/ /\ DispatchTarget(GA_IMPORT_METHOD) # "raise"
        /\ Goto(DispatchTarget(GA_IMPORT_METHOD))
        /\ UNCHANGED <<exc, escaped>>
  /\ UNCHANGED <<config, encoder, mp_state, calls, upload_calls, result>>

\* main.py:299  write_df_to_csv
WriteDfToCsv ==
  /\ pc = "write_df_to_csv"
  /\ \/ EnterExcept(Exc("cannot write /tmp/data.csv", "write_df_to_csv", 0))
     \/ Goto("authorize_ga_api") /\ UNCHANGED <<exc, escaped>>
  /\ UNCHANGED <<config, encoder, mp_state, calls, upload_calls, result>>

\* main.py:300  authorize_ga_api
AuthorizeGaApi ==
  /\ pc = "authorize_ga_api"
  /\ \/ EnterExcept(Exc("authorization failed", "authorize_ga_api", 0))
     \/ Goto("write_to_ga_via_di") /\ UNCHANGED <<exc, escaped>>
  /\ UNCHANGED <<config, encoder, mp_state, calls, upload_calls, result>>

\* main.py:301  write_to_ga_via_di: one uploadData call
WriteToGaViaDi ==
  /\ pc = "write_to_ga_via_di"
  /\ upload_calls' = upload_calls + 1
  /\ \/ EnterExcept(Exc("upload failed", "write_to_ga_via_di", 0))
     \/ Goto("delete_ga_prev_uploads") /\ UNCHANGED <<exc, escaped>>
  /\ UNCHANGED <<config, encoder, mp_state, calls, result>>

\* main.py:302  delete_ga_prev_uploads, then the end of the flow
DeleteGaPrevUploads ==
  /\ pc = "delete_ga_prev_uploads"
  /\ \/ EnterExcept(Exc("delete failed", "delete_ga_prev_uploads", 0))
     \/ FlowDone
  /\ UNCHANGED <<config, encoder, mp_state, calls, upload_calls, result>>

(***************************************************************************)
(* The flow: write_to_ga_via_mp.                                           *)
(***************************************************************************)
\* main.py:216  "if i%20 == 0"
BatchFull(n) == n % BatchSize = 0

\* the batch under construction is kept after a submission
AfterSubmit_keep(pl) == pl

\* main.py:223  the batch under construction after a submission
AfterSubmit(pl) == <<>>

\* a submission that is repeated once when the answer is not a success
Responded_resend(pl, status_code) ==
  LET payload_send == prepare_payloads_for_batch_request(pl)
      lists == send_mp_hit(payload_send, success_requests, failed_requests, status_code)
  IN /\ batches' = IF status_code \in SuccessRange
                     THEN Append(batches, pl)
                     ELSE Append(Append(batches, pl), pl)
     /\ last_status' = status_code
     /\ success_requests' = lists[1]
     /\ failed_requests' = lists[2]
     /\ UNCHANGED <<exc, escaped>>

\* main.py:163-174  the endpoint answers the POST of batch pl with a status
Responded(pl, status_code) ==
  LET payload_send == prepare_payloads_for_batch_request(pl)
      lists == send_mp_hit(payload_send, success_requests, failed_requests, status_code)
  IN /\ batches' = Append(batches, pl)
     /\ last_status' = status_code
     /\ success_requests' = lists[1]
     /\ failed_requests' = lists[2]
     /\ UNCHANGED <<exc, escaped>>

\* a transport fault that is noted while the driver carries on
Faulted_continue(pl) ==
  /\ batches' = Append(batches, pl)
  /\ last_status' = 0
  /\ UNCHANGED <<success_requests, failed_requests, escaped>>
  /\ exc' = Exc("Connection aborted.", "send_mp_hit", 0)
  /\ Goto("mp_loop")

\* main.py:163  requests.Session().send raises: the exception leaves
\* send_mp_hit and write_to_ga_via_mp and is caught at main.py:311
Faulted(pl) ==
  /\ batches' = Append(batches, pl)
  /\ last_status' = 0
  /\ UNCHANGED <<success_requests, failed_requests>>
  /\ EnterExcept(Exc("Connection aborted.", "send_mp_hit", 0))

\* main.py:203-224  one iteration of the loop over df.iterrows()
MpRow ==
  /\ pc = "mp_loop"
  /\ row_index < Len(df)
  /\ row_index' = row_index + 1
  /\ LET hit_data == HitData(df[row_index + 1])
         pl == Append(payload_list, hit_data)
     IN IF BatchFull(i + 1)
          THEN \/ /\ \E status_code \in StatusCodes : Responded(pl, status_code)
                  /\ payload_list' = AfterSubmit(pl)
                  /\ i' = 0
                  /\ Goto("mp_loop")
               \/ /\ Faulted(pl)
                  /\ payload_list' = pl
                  /\ i' = i + 1
          ELSE /\ payload_list' = pl
               /\ i' = i + 1
               /\ Goto("mp_loop")
               /\ UNCHANGED <<success_requests, failed_requests, batches,
                              last_status, exc, escaped>>
  /\ UNCHANGED <<config, encoder, calls, upload_calls, result>>

\* main.py:226-233  the loop is over: the last batch call
MpLast ==
  /\ pc = "mp_loop"
  /\ row_index = Len(df)
  /\ IF i > 0
       THEN \/ /\ \E status_code \in StatusCodes : Responded(payload_list, status_code)
               /\ Goto("mp_report")
            \/ Faulted(payload_list)
       ELSE /\ Goto("mp_report")
            /\ UNCHANGED <<success_requests, failed_requests, batches,
                           last_status, exc, escaped>>
  /\ UNCHANGED <<config, encoder, row_index, i, payload_list, calls, upload_calls, result>>

\* main.py:235-239  the report; "..." + failed_requests adds a str and a list
MpReport ==
  /\ pc = "mp_report"
  /\ IF failed_requests # <<>>
       THEN EnterExcept(Exc(ConcatTypeErrorText, "write_to_ga_via_mp", 0))
       ELSE FlowDone
  /\ UNCHANGED <<config, encoder, mp_state, calls, upload_calls, result>>

(***************************************************************************)
(* The side effects, each behind retrying.retry.                           *)
(***************************************************************************)
Invocation(op, status, message, ok) ==
  [op |-> op, status |-> status, message |-> message,
   attempt |-> attempt_number, waited |-> slept, ok |-> ok]

\* retrying.Retrying.call after a failed attempt that is not the last one:
\* sleep, then go round again
RetryAgain ==
  /\ slept' = exponential_sleep(attempt_number)
  /\ attempt_number' = attempt_number + 1
  /\ pc' = pc
  /\ UNCHANGED <<exc, escaped>>

\* main.py:308  one attempt of write_to_bq_logs(status="SUCCESS", message="")
WriteLogSuccess ==
  /\ pc = "log_success"
  /\ \/ /\ calls' = Append(calls, Invocation("write_to_bq_logs", "SUCCESS", "", TRUE))
        /\ Goto("return_success")
        /\ UNCHANGED <<exc, escaped>>
     \/ /\ calls' = Append(calls, Invocation("write_to_bq_logs", "SUCCESS", "", FALSE))
        /\ IF stop(attempt_number)
             THEN EnterExcept(Exc("BigQuery insert failed", "write_to_bq_logs", attempt_number))
             ELSE RetryAgain
  /\ UNCHANGED <<config, encoder, mp_state, upload_calls, result>>

\* main.py:313  one attempt of write_to_bq_logs(status="ERROR", message=str(e))
WriteLogError ==
  /\ pc = "log_error"
  /\ \/ /\ calls' = Append(calls, Invocation("write_to_bq_logs", "ERROR", exc.text, TRUE))
        /\ IF ENABLED_EMAIL THEN StartRetry("send_email") ELSE Goto("return_error")
        /\ UNCHANGED <<exc, escaped>>
     \/ /\ calls' = Append(calls, Invocation("write_to_bq_logs", "ERROR", exc.text, FALSE))
        /\ IF stop(attempt_number)
             THEN Propagate(Exc("BigQuery insert failed", "write_to_bq_logs", attempt_number))
             ELSE RetryAgain
  /\ UNCHANGED <<config, encoder, mp_state, upload_calls, result>>

\* main.py:315  one attempt of send_email(error_message=str(e))
SendEmail ==
  /\ pc = "send_email"
  /\ \/ \E status_code \in EmailStatusCodes :
          IF FirstDigit(status_code) = 2
            THEN /\ calls' = Append(calls, Invocation("send_email", "", exc.text, TRUE))
                 /\ Goto("return_error")
                 /\ UNCHANGED <<exc, escaped>>
            ELSE /\ calls' = Append(calls, Invocation("send_email", "", exc.text, FALSE))
                 /\ IF stop(attempt_number)
                      THEN Propagate(Exc(EmailNotSentText, "send_email", attempt_number))
                      ELSE RetryAgain
     \/ /\ calls' = Append(calls, Invocation("send_email", "", exc.text, FALSE))
        /\ IF stop(attempt_number)
             THEN Propagate(Exc("SendGrid request failed", "send_email", attempt_number))
             ELSE RetryAgain
  /\ UNCHANGED <<config, encoder, mp_state, upload_calls, result>>

(***************************************************************************)
(* The outcome string.                                                     *)
(***************************************************************************)
\* "{0},SUCCESS".format(timestamp_utc)
FormatSuccess(ts) == ts \o ",SUCCESS"

\* an outcome string that leaves the message out
FormatError_nomsg(ts, text) == ts \o ",ERROR"

\* "{0},ERROR,{1}".format(timestamp_utc, str(e))
FormatError(ts, text) == ts \o ",ERROR," \o text

\* main.py:309-310
ReturnSuccess ==
  /\ pc = "return_success"
  /\ result' = FormatSuccess(timestamp_utc)
  /\ Goto("returned")
  /\ UNCHANGED <<config, encoder, mp_state, exc, escaped, calls, upload_calls>>

\* main.py:316-317
ReturnError ==
  /\ pc = "return_error"
  /\ result' = FormatError(timestamp_utc, exc.text)
  /\ Goto("returned")
  /\ UNCHANGED <<config, encoder, mp_state, exc, escaped, calls, upload_calls>>

Next ==
  \/ ReadFromBq
  \/ WriteDfToCsv
  \/ AuthorizeGaApi
  \/ WriteToGaViaDi
  \/ DeleteGaPrevUploads
  \/ MpRow
  \/ MpLast
  \/ MpReport
  \/ WriteLogSuccess
  \/ WriteLogError
  \/ SendEmail
  \/ ReturnSuccess
  \/ ReturnError

Spec == Init /\ [][Next]_vars

TypeOK ==
  /\ pc \in {"read_from_bq", "write_df_to_csv", "authorize_ga_api", "write_to_ga_via_di",
             "delete_ga_prev_uploads", "mp_loop", "mp_report", "log_success",
             "return_success", "log_error", "send_email", "return_error",
             "returned", "raised"}
  /\ row_index \in 0..Len(df)
  /\ i \in 0..BatchSize
  /\ attempt_number \in 0..stop_max_attempt_number

(***************************************************************************)
(* Vocabulary of the properties.                                           *)
(***************************************************************************)
Range(s) == {s[j] : j \in 1..Len(s)}

RECURSIVE Concat(_)
Concat(ss) == IF ss = <<>> THEN <<>> ELSE Head(ss) \o Concat(Tail(ss))

\* the hits of the whole row stream, in row order
AllHits == [r \in 1..Len(df) |-> HitData(df[r])]

\* indices of the invocations of one operation
CallsOf(op) == {n \in 1..Len(calls) : calls[n].op = op}

\* number of calls of the retry wrapper of op: each begins with attempt 1
SequencesOf(op) == Cardinality({n \in CallsOf(op) : calls[n].attempt = 1})

\* the run reached the report of write_to_ga_via_mp (main.py:235)
MpStreamEnd ==
  /\ GA_IMPORT_METHOD = "mp"
  /\ pc \notin {"read_from_bq", "mp_loop"}
  /\ exc.origin \notin {"read_from_bq", "send_mp_hit"}

\* the transform-and-submit flow ended without raising (main.py:307 reached)
FlowCompleted ==
  \/ pc \in {"log_success", "return_success"}
  \/ \E n \in 1..Len(calls) : calls[n].status = "SUCCESS"
  \/ result = FormatSuccess(timestamp_utc)

(***************************************************************************)
(* C1: in 'mp' mode, when no submission raises a transport fault,          *)
(* write_to_ga_via_mp does not raise whatever the number of batches        *)
(* answered with a non-2xx status, and (row read and log write             *)
(* succeeding) the run returns the SUCCESS outcome string.                 *)
(* The statement as claimed; the report at main.py:239 raises a TypeError  *)
(* as soon as failed_requests is not empty.                                *)
(***************************************************************************)
C1_FailedBatchNeverFailsRun ==
  (GA_IMPORT_METHOD = "mp" /\ last_status \notin 200..299) =>
    /\ exc.origin # "write_to_ga_via_mp"
    /\ (pc = "returned" /\ exc.origin \notin {"read_from_bq", "send_mp_hit", "write_to_bq_logs"})
         => result = timestamp_utc \o ",SUCCESS"

(***************************************************************************)
(* C2: whenever the flow completes without raising, the only log write     *)
(* invoked is the retried write of (SUCCESS, ""), no (ERROR, ...) log      *)
(* write and no email send is invoked, and no ERROR outcome is returned.   *)
(* The statement as claimed; the SUCCESS log write is inside the try       *)
(* block, so its exhaustion is caught and handled as an error of the run.  *)
(***************************************************************************)
C2_CompletedFlowIsSuccess ==
  FlowCompleted =>
    /\ \A n \in 1..Len(calls) :
         /\ calls[n].op = "write_to_bq_logs"
         /\ calls[n].status = "SUCCESS"
         /\ calls[n].message = ""
    /\ result \in {NoResult, timestamp_utc \o ",SUCCESS"}

(***************************************************************************)
(* C3: send_mp_hit puts the payload on success_requests exactly when the   *)
(* status code is in 200..299 inclusive, and on failed_requests otherwise. *)
(* The statement as claimed; range(200, 299) leaves 299 out.               *)
(***************************************************************************)
C3_SuccessIff2xx ==
  last_status # 0 =>
    LET p == prepare_payloads_for_batch_request(batches[Len(batches)])
    IN IF last_status \in 200..299
         THEN /\ success_requests # <<>>
              /\ success_requests[Len(success_requests)] = p
              /\ p \notin Range(failed_requests)
         ELSE /\ failed_requests # <<>>
              /\ failed_requests[Len(failed_requests)] = p
              /\ p \notin Range(success_requests)

(***************************************************************************)
(* C4: a retry-wrapped operation is invoked at most 5 times per call of    *)
(* the wrapper; a successful attempt is the last attempt of its call; and  *)
(* when all 5 attempts fail, the exception of the fifth attempt reaches    *)
(* the caller of the wrapper.                                              *)
(***************************************************************************)
C4_BoundedRetry ==
  /\ \A n \in 1..Len(calls) :
       /\ calls[n].attempt \in 1..5
       /\ (n < Len(calls) /\ calls[n].ok) => calls[n + 1].attempt = 1
       /\ (n < Len(calls) /\ calls[n].attempt = 5) => calls[n + 1].attempt = 1
       /\ calls[n].attempt > 1 =>
            /\ calls[n - 1].attempt = calls[n].attempt - 1
            /\ calls[n - 1].op = calls[n].op
            /\ calls[n - 1].status = calls[n].status
            /\ ~calls[n - 1].ok
  /\ \A n \in 1..Len(calls) :
       (calls[n].attempt = 5 /\ ~calls[n].ok) =>
         IF calls[n].status = "SUCCESS"
           THEN /\ exc.origin = "write_to_bq_logs"
                /\ exc.attempt = 5
                /\ pc \notin {"return_success", "log_success"}
                /\ result # timestamp_utc \o ",SUCCESS"
           ELSE /\ pc = "raised"
                /\ escaped.origin = calls[n].op
                /\ escaped.attempt = 5
                /\ result = NoResult

\* a log write succeeded on its third attempt and the email send was given up
C4_Witness ==
  /\ pc = "raised"
  /\ escaped.origin = "send_email"
  /\ \E n \in CallsOf("write_to_bq_logs") : calls[n].attempt = 3 /\ calls[n].ok
  /\ Cardinality(CallsOf("send_email")) = 5

(***************************************************************************)
(* C5 as claimed: no wait precedes attempt 1 and the wait before attempt   *)
(* k = 2..5 is min(1000 * 2^(k-2), 10000) ms: 1000, 2000, 4000, 8000.      *)
(***************************************************************************)
C5_WaitsAsClaimed ==
  \A n \in 1..Len(calls) :
    calls[n].waited = IF calls[n].attempt = 1 THEN 0
                      ELSE Min(1000 * 2 ^ (calls[n].attempt - 2), 10000)

(***************************************************************************)
(* C5 amended: no wait precedes attempt 1 and the wait before attempt      *)
(* k = 2..5 is min(1000 * 2^(k-1), 10000) ms: 2000, 4000, 8000, 10000; a   *)
(* call whose first attempt succeeds has waited 0 ms.                      *)
(***************************************************************************)
C5_WaitsExponential ==
  \A n \in 1..Len(calls) :
    /\ calls[n].waited = Min(1000 * 2 ^ (calls[n].attempt - 1), 10000) *
                           (IF calls[n].attempt = 1 THEN 0 ELSE 1)
    /\ calls[n].waited = CASE calls[n].attempt = 1 -> 0
                           [] calls[n].attempt = 2 -> 2000
                           [] calls[n].attempt = 3 -> 4000
                           [] calls[n].attempt = 4 -> 8000
                           [] calls[n].attempt = 5 -> 10000

\* a fifth attempt was made, after the capped wait
C5_Witness ==
  \E n \in 1..Len(calls) : calls[n].attempt = 5 /\ calls[n].waited = 10000

(***************************************************************************)
(* C6: no batch handed to the network is empty or longer than 20 hits;     *)
(* the batches so far, concatenated in submission order and followed by    *)
(* the batch under construction, are the hits of the rows read so far, in  *)
(* row order; and when the driver reaches the end of a stream of N hits it *)
(* has formed floor(N/20) batches of 20 hits, followed by one batch of     *)
(* N mod 20 hits iff N mod 20 > 0.                                         *)
(***************************************************************************)
C6_Batching ==
  LET N == Len(df)
      full == N \div 20
  IN /\ \A b \in 1..Len(batches) : Len(batches[b]) \in 1..20
     /\ pc = "mp_loop" =>
          Concat(batches) \o payload_list = SubSeq(AllHits, 1, row_index)
     /\ Concat(batches) = SubSeq(AllHits, 1, Len(Concat(batches)))
     /\ MpStreamEnd =>
          /\ Len(batches) = full + (IF N % 20 > 0 THEN 1 ELSE 0)
          /\ \A b \in 1..full : Len(batches[b]) = 20
          /\ N % 20 > 0 => Len(batches[full + 1]) = N % 20
          /\ Concat(batches) = AllHits

\* two full batches and a remainder batch were formed
C6_Witness ==
  /\ MpStreamEnd
  /\ Len(df) > 40
  /\ Len(batches) = 3
  /\ Len(batches[3]) = Len(df) - 40

(***************************************************************************)
(* C7: at every point of a run len(success_requests) +                     *)
(* len(failed_requests) is the number of batch submissions that have       *)
(* returned, every payload whose submission returned is in exactly one of  *)
(* the two lists, and when the driver reaches the end of a stream of N     *)
(* hits the sum is ceil(N/20).                                             *)
(***************************************************************************)
C7_Partition ==
  LET returned == Len(batches) - (IF exc.origin = "send_mp_hit" THEN 1 ELSE 0)
  IN /\ Len(success_requests) + Len(failed_requests) = returned
     /\ \A b \in 1..returned :
          LET p == prepare_payloads_for_batch_request(batches[b])
          IN /\ (p \in Range(success_requests)) # (p \in Range(failed_requests))
             /\ Cardinality({j \in 1..Len(success_requests) : success_requests[j] = p})
                + Cardinality({j \in 1..Len(failed_requests) : failed_requests[j] = p}) = 1
     /\ MpStreamEnd =>
          Len(success_requests) + Len(failed_requests) = (Len(df) + 19) \div 20

\* three submissions returned, some on each list
C7_Witness ==
  /\ MpStreamEnd
  /\ Len(batches) = 3
  /\ Len(success_requests) = 2
  /\ Len(failed_requests) = 1

(***************************************************************************)
(* C8: no exception raised by the flow (row read, mode dispatch, batch     *)
(* submission, bulk upload, deletion) leaves trigger_workflow: such a run  *)
(* goes on to return an outcome string, and an exception leaves            *)
(* trigger_workflow only when a log write or an email send has failed on   *)
(* all of its attempts.                                                    *)
(***************************************************************************)
C8_OnlyExhaustionEscapes ==
  /\ escaped.origin \in {"none", "write_to_bq_logs", "send_email"}
  /\ (escaped # NoExc) <=> (pc = "raised")
  /\ pc = "raised" =>
       /\ result = NoResult
       /\ escaped.attempt = 5
       /\ Len(calls) >= 5
       /\ \A n \in (Len(calls) - 4)..Len(calls) :
            calls[n].op = escaped.origin /\ ~calls[n].ok
  /\ pc = "returned" => result # NoResult /\ escaped = NoExc
  /\ (exc.origin \notin {"none", "write_to_bq_logs"}) =>
       pc \in {"log_error", "send_email", "return_error", "returned", "raised"}

\* a transport fault of a batch submission was caught and an outcome returned
C8_Witness ==
  /\ pc = "returned"
  /\ exc.origin = "send_mp_hit"
  /\ result = timestamp_utc \o ",ERROR,Connection aborted."

(***************************************************************************)
(* C9: when the delivery mode is neither 'di' nor 'mp' and the row read    *)
(* succeeds, no batch is submitted, no bulk upload is made, the text       *)
(* 'GA Export Method not found.' is what every log write (with status      *)
(* ERROR) and every email send is given, and the outcome returned is the   *)
(* ERROR outcome with exactly that message.                                *)
(***************************************************************************)
C9_UnknownMode ==
  (GA_IMPORT_METHOD \notin {"di", "mp"} /\ pc # "read_from_bq"
     /\ exc.origin # "read_from_bq") =>
    /\ batches = <<>>
    /\ success_requests = <<>> /\ failed_requests = <<>>
    /\ upload_calls = 0
    /\ exc.text = "GA Export Method not found."
    /\ \A n \in 1..Len(calls) :
         /\ calls[n].message = "GA Export Method not found."
         /\ calls[n].op = "write_to_bq_logs" => calls[n].status = "ERROR"
    /\ pc \in {"log_error", "send_email", "return_error", "returned", "raised"}
    /\ pc = "returned" => result = timestamp_utc \o ",ERROR,GA Export Method not found."

\* an unknown mode was logged, mailed and returned
C9_Witness ==
  /\ GA_IMPORT_METHOD = "xx"
  /\ pc = "returned"
  /\ exc.origin = "trigger_workflow"
  /\ \E n \in CallsOf("write_to_bq_logs") : calls[n].ok
  /\ \E n \in CallsOf("send_email") : calls[n].ok

(***************************************************************************)
(* C10: once a batch submission has raised a transport fault, no later     *)
(* batch is submitted (the faulted submission stays the last one), an      *)
(* outcome that is returned is ERROR with the fault's text as message,     *)
(* and with logging enabled the log writes of the run form exactly one     *)
(* retried sequence, of at most 5 invocations, each for (ERROR, text).     *)
(***************************************************************************)
C10_FaultAborts ==
  exc.origin = "send_mp_hit" =>
    /\ last_status = 0
    /\ Len(batches) = Len(success_requests) + Len(failed_requests) + 1
    /\ Len(Concat(batches)) = row_index
    /\ pc \in {"log_error", "send_email", "return_error", "returned", "raised"}
    /\ pc = "returned" => result = timestamp_utc \o ",ERROR,Connection aborted."
    /\ \A n \in CallsOf("write_to_bq_logs") :
         calls[n].status = "ERROR" /\ calls[n].message = "Connection aborted."
    /\ Cardinality(CallsOf("write_to_bq_logs")) <= 5
    /\ SequencesOf("write_to_bq_logs") <= 1
    /\ ~ENABLED_LOGGING => CallsOf("write_to_bq_logs") = {}
    /\ (ENABLED_LOGGING /\ pc # "log_error") => SequencesOf("write_to_bq_logs") = 1
    /\ (ENABLED_LOGGING /\ pc = "log_error") =>
         Cardinality(CallsOf("write_to_bq_logs")) = attempt_number - 1

\* the second of three batches faulted; the run logged the error and returned
C10_Witness ==
  /\ exc.origin = "send_mp_hit"
  /\ pc = "returned"
  /\ ENABLED_LOGGING
  /\ Len(df) > 40
  /\ Len(batches) = 2
  /\ Cardinality(CallsOf("write_to_bq_logs")) = 3

(***************************************************************************)
(* C11: every batch is handed to the network exactly once and never again; *)
(* a payload on failed_requests (or success_requests) stays there for the  *)
(* rest of the run; after a batch answered with a non-2xx status the       *)
(* driver still submits every later batch, so that at stream end all       *)
(* ceil(N/20) batches were submitted; and submissions happen one per step, *)
(* in source-row order.                                                    *)
(***************************************************************************)
IsPrefix(a, b) == Len(a) <= Len(b) /\ SubSeq(b, 1, Len(a)) = a

C11_SubmittedOnce ==
  /\ [](/\ \A a, b \in 1..Len(batches) : a # b => batches[a] # batches[b]
        /\ \A b \in 1..Len(batches) :
             batches[b] = SubSeq(AllHits, (b - 1) * 20 + 1, (b - 1) * 20 + Len(batches[b]))
        /\ (MpStreamEnd /\ failed_requests # <<>>) =>
             Len(batches) = (Len(df) + 19) \div 20
        /\ Len(batches) - (Len(success_requests) + Len(failed_requests))
             = (IF exc.origin = "send_mp_hit" THEN 1 ELSE 0))
  /\ [][/\ IsPrefix(failed_requests, failed_requests')
        /\ IsPrefix(success_requests, success_requests')
        /\ IsPrefix(batches, batches')
        /\ Len(batches') <= Len(batches) + 1]_vars

\* the first of three batches failed and the two later ones were submitted
C11_Witness ==
  /\ MpStreamEnd
  /\ Len(batches) = 3
  /\ failed_requests # <<>>
  /\ failed_requests[1] = prepare_payloads_for_batch_request(batches[1])
  /\ Len(success_requests) = 2

(***************************************************************************)
(* C12: a run appends at most one row to the status log (a row is appended *)
(* by a log write attempt that succeeds); when logging is enabled and      *)
(* trigger_workflow has returned an outcome string, exactly one row was    *)
(* appended, and the outcome string is the one made of the timestamp and   *)
(* of that row's status and message.                                       *)
(***************************************************************************)
LogRows == {n \in CallsOf("write_to_bq_logs") : calls[n].ok}

C12_OneLogRow ==
  /\ Cardinality(LogRows) <= 1
  /\ ~ENABLED_LOGGING => LogRows = {}
  /\ (ENABLED_LOGGING /\ pc = "returned") =>
       \E n \in LogRows :
         /\ LogRows = {n}
         /\ calls[n].status \in {"SUCCESS", "ERROR"}
         /\ calls[n].status = "SUCCESS" =>
              calls[n].message = "" /\ result = timestamp_utc \o ",SUCCESS"
         /\ calls[n].status = "ERROR" =>
              result = timestamp_utc \o ",ERROR," \o calls[n].message

\* a transport fault was logged as one ERROR row and returned
C12_Witness ==
  /\ ENABLED_LOGGING
  /\ pc = "returned"
  /\ \E n \in LogRows : calls[n].status = "ERROR" /\ calls[n].message = "Connection aborted."
  /\ result = timestamp_utc \o ",ERROR,Connection aborted."

(***************************************************************************)
(* C14: every log write of a run precedes every email send of the run,     *)
(* and with logging enabled an email is sent only after an (ERROR, ...)    *)
(* log write has succeeded; if the (ERROR, message) log write fails on     *)
(* its fifth attempt, that exception leaves trigger_workflow, no email     *)
(* send is invoked and no outcome string is returned.                      *)
(***************************************************************************)
C14_LogBeforeEmail ==
  /\ \A m \in CallsOf("write_to_bq_logs") : \A n \in CallsOf("send_email") : m < n
  /\ (ENABLED_LOGGING /\ CallsOf("send_email") # {}) =>
       \E m \in LogRows : calls[m].status = "ERROR"
  /\ (\E m \in CallsOf("write_to_bq_logs") :
        calls[m].status = "ERROR" /\ calls[m].attempt = 5 /\ ~calls[m].ok) =>
       /\ pc = "raised"
       /\ escaped.origin = "write_to_bq_logs"
       /\ escaped.attempt = 5
       /\ CallsOf("send_email") = {}
       /\ result = NoResult

\* with alerting enabled, the ERROR log write of a faulted run was given up
C14_Witness ==
  /\ ENABLED_LOGGING /\ ENABLED_EMAIL
  /\ exc.origin = "send_mp_hit"
  /\ pc = "raised"
  /\ escaped.origin = "write_to_bq_logs"
  /\ Cardinality(CallsOf("write_to_bq_logs")) = 5

(***************************************************************************)
(* C15: send_email is invoked only with alerting enabled and only after an *)
(* exception was caught, in a run that returns no outcome other than       *)
(* ERROR; write_to_bq_logs is invoked only with logging enabled; a run     *)
(* that returned the SUCCESS outcome has not invoked send_email; and at    *)
(* most one email send of a run succeeds.                                  *)
(***************************************************************************)
C15_EmailOnlyOnError ==
  /\ CallsOf("send_email") # {} =>
       /\ ENABLED_EMAIL
       /\ exc # NoExc
       /\ pc \in {"send_email", "return_error", "returned", "raised"}
       /\ result \in {NoResult, timestamp_utc \o ",ERROR," \o exc.text}
       /\ \A n \in CallsOf("send_email") : calls[n].message = exc.text
  /\ CallsOf("write_to_bq_logs") # {} => ENABLED_LOGGING
  /\ result = timestamp_utc \o ",SUCCESS" => CallsOf("send_email") = {}
  /\ Cardinality({n \in CallsOf("send_email") : calls[n].ok}) <= 1

\* an alert was delivered on the third attempt and the ERROR outcome returned
C15_Witness ==
  /\ ENABLED_EMAIL
  /\ pc = "returned"
  /\ result = timestamp_utc \o ",ERROR," \o exc.text
  /\ \E n \in CallsOf("send_email") : calls[n].ok /\ calls[n].attempt = 3

(***************************************************************************)
(* C16: the attempts of the email send are counted on their own: its k-th  *)
(* invocation is attempt k, preceded by no wait when k = 1, whatever the   *)
(* number of attempts the log write took, and the email send is given up   *)
(* only after 5 invocations of send_email.                                 *)
(***************************************************************************)
C16_IndependentBudgets ==
  /\ \A n \in CallsOf("send_email") :
       /\ calls[n].attempt = 1 + Cardinality({m \in CallsOf("send_email") : m < n})
       /\ calls[n].attempt = 1 => calls[n].waited = 0
  /\ pc = "send_email" => attempt_number = Cardinality(CallsOf("send_email")) + 1
  /\ escaped.origin = "send_email" => Cardinality(CallsOf("send_email")) = 5
  /\ (pc \in {"return_error", "returned"} /\ exc # NoExc /\ ENABLED_EMAIL) =>
       \E n \in CallsOf("send_email") : calls[n].ok

\* the log write took all 5 attempts and the email send still made 5 attempts
C16_Witness ==
  /\ ENABLED_LOGGING /\ ENABLED_EMAIL
  /\ \E m \in LogRows : calls[m].status = "ERROR" /\ calls[m].attempt = 5
  /\ Cardinality(CallsOf("send_email")) = 5
  /\ escaped.origin = "send_email"

(***************************************************************************)
(* C18: in a run write_to_bq_logs is invoked at most 5 times in total,     *)
(* i.e. at most one retried log-write sequence is started per run.         *)
(* The statement as claimed; when the (SUCCESS, "") write fails 5 times    *)
(* the except block starts a second sequence, for (ERROR, message).        *)
(***************************************************************************)
C18_AtMostFiveLogWrites ==
  /\ Cardinality(CallsOf("write_to_bq_logs")) <= 5
  /\ SequencesOf("write_to_bq_logs") <= 1

(***************************************************************************)
(* C19: a run over a finite row stream in which every step that can be     *)
(* taken is eventually taken ends: it returns an outcome string or an      *)
(* exception of an exhausted side effect leaves it; and it makes at most   *)
(* ceil(N/20) batch submissions, at most 10 log-write attempts and at most *)
(* 5 email attempts.                                                       *)
(***************************************************************************)
\* the driver of write_to_ga_via_mp can take a step exactly when the run is
\* in its loop: this is ENABLED <<MpRow \/ MpLast>>_vars, written as the guard
MpLoopEnabled == pc = "mp_loop"

\* weak fairness of the driver loop: every POST returns or raises
MpLoopFair == <>[]MpLoopEnabled => []<><<MpRow \/ MpLast>>_vars

\* every call the run makes (query, upload, POST, log write, email send)
\* eventually returns or raises, and the run then takes its next step
LiveSpec ==
  /\ Init /\ [][Next]_vars
  /\ WF_vars(ReadFromBq) /\ WF_vars(WriteDfToCsv) /\ WF_vars(AuthorizeGaApi)
  /\ WF_vars(WriteToGaViaDi) /\ WF_vars(DeleteGaPrevUploads)
  /\ MpLoopFair
  /\ WF_vars(MpReport)
  /\ WF_vars(WriteLogSuccess) /\ WF_vars(WriteLogError) /\ WF_vars(SendEmail)
  /\ WF_vars(ReturnSuccess) /\ WF_vars(ReturnError)

C19_Terminates ==
  /\ <>(pc \in {"returned", "raised"})
  /\ [](/\ Len(batches) <= (Len(df) + 19) \div 20
        /\ Cardinality(CallsOf("write_to_bq_logs")) <= 2 * 5
        /\ Cardinality(CallsOf("send_email")) <= 5
        /\ pc = "returned" => result # NoResult
        /\ pc = "raised" => escaped.origin \in {"write_to_bq_logs", "send_email"})

\* a run of three submissions that used up both log-write sequences ended
C19_Witness ==
  /\ pc \in {"returned", "raised"}
  /\ Len(batches) = 3
  /\ Cardinality(CallsOf("write_to_bq_logs")) = 10


(***************************************************************************)
(* Hit building and encoding on their own: the loop body of                *)
(* write_to_ga_via_mp (main.py:203-214) and                                *)
(* prepare_payloads_for_batch_request (main.py:177-191) applied to         *)
(* defaults and rows drawn from every insertion-ordered mapping over a     *)
(* small set of keys and values.                                           *)
(***************************************************************************)
\* the largest number of rows drawn
MaxRecords == 2

\* the names of the default fields and of the columns drawn
FieldNames == {"a", "b"}

\* the values a default field is drawn from: empty, or a text with a space
DefaultValues == {"", "big query"}

\* the values a column is drawn from
ColumnValues == {"", "1", "2"}

\* every dict with keys in names and values in values, in every insertion order
Dicts(names, values) ==
  {d \in UNION {[1..n -> names \X values] : n \in 0..Cardinality(names)} :
     \A x, y \in 1..Len(d) : x # y => d[x][1] # d[y][1]}

EncInit ==
  /\ hit_details \in Dicts(FieldNames, DefaultValues)
  /\ records \in UNION {[1..n -> Dicts(FieldNames, ColumnValues)] : n \in 0..MaxRecords}
  /\ hits = <<>>
  /\ lines = <<>>
  /\ encoded = ""
  /\ enc_pc = "build"
  /\ GA_IMPORT_METHOD = "mp"
  /\ ENABLED_LOGGING = FALSE
  /\ ENABLED_EMAIL = FALSE
  /\ df = <<>>
  /\ pc = "mp_loop"
  /\ row_index = 0
  /\ i = 0
  /\ payload_list = <<>>
  /\ success_requests = <<>>
  /\ failed_requests = <<>>
  /\ exc = NoExc
  /\ attempt_number = 0
  /\ slept = 0
  /\ calls = <<>>
  /\ batches = <<>>
  /\ last_status = 0
  /\ upload_calls = 0
  /\ result = NoResult
  /\ escaped = NoExc

run == <<GA_IMPORT_METHOD, ENABLED_LOGGING, ENABLED_EMAIL, df, pc, row_index, i,
         payload_list, success_requests, failed_requests, exc, attempt_number,
         slept, calls, batches, last_status, upload_calls, result, escaped>>

\* main.py:203-214  one iteration: the hit of the next row is built and appended
BuildHit ==
  /\ enc_pc = "build"
  /\ Len(hits) < Len(records)
  /\ hits' = Append(hits, HitFrom(IF hits = <<>> THEN <<>> ELSE hits[Len(hits)],
                                  hit_details, records[Len(hits) + 1]))
  /\ UNCHANGED <<run, hit_details, records, lines, encoded, enc_pc>>

\* main.py:218 / 229  prepare_payloads_for_batch_request on the list of the
\* hits, and on the list of each hit alone
Encode ==
  /\ enc_pc = "build"
  /\ Len(hits) = Len(records)
  /\ encoded' = prepare_payloads_for_batch_request(hits)
  /\ lines' = [j \in 1..Len(hits) |-> prepare_payloads_for_batch_request(<<hits[j]>>)]
  /\ enc_pc' = "encoded"
  /\ UNCHANGED <<run, hit_details, records, hits>>

EncNext == BuildHit \/ Encode

EncSpec == EncInit /\ [][EncNext]_vars

\* the keys of a dict
Keys(d) == {d[j][1] : j \in 1..Len(d)}

\* d[k]
Value(d, k) == d[CHOOSE j \in 1..Len(d) : d[j][1] = k][2]

\* the content of a dict, whatever its insertion order
Mapping(d) == [k \in Keys(d) |-> Value(d, k)]

\* the pairs of d by rank: the n-th pair is the one whose key has n - 1
\* smaller keys in d
Ascending(d) ==
  [n \in 1..Cardinality(Keys(d)) |->
     LET k == CHOOSE x \in Keys(d) :
                Cardinality({y \in Keys(d) : KeyRank(y) < KeyRank(x)}) = n - 1
     IN <<k, Value(d, k)>>]

\* "k=v" of a pair, the space of a value written "+"
PairText(kv) == kv[1] \o "=" \o (IF kv[2] = "big query" THEN "big+query" ELSE kv[2])

\* the line of a hit as the claim describes it: its pairs in ascending key
\* order, joined by "&"
RECURSIVE LineOf(_)
LineOf(pairs) ==
  IF pairs = <<>> THEN ""
  ELSE IF Len(pairs) = 1 THEN PairText(pairs[1])
  ELSE LineOf(SubSeq(pairs, 1, Len(pairs) - 1)) \o "&" \o PairText(pairs[Len(pairs)])

(***************************************************************************)
(* C13: prepare_payloads_for_batch_request depends on the content of a hit *)
(* only: the line of a hit is its key=value pairs in ascending key order   *)
(* joined by "&", so two hits with the same key/value mapping built in     *)
(* different insertion orders have the same line, the hit {b:2, a:1} has   *)
(* the line "a=1&b=2", and the payload of a batch is the lines of its hits *)
(* joined by a newline in batch order.                                     *)
(***************************************************************************)
C13_EncodingDeterministic ==
  enc_pc = "encoded" =>
    /\ Len(lines) = Len(hits)
    /\ \A j \in 1..Len(hits) : lines[j] = LineOf(Ascending(hits[j]))
    /\ \A j, k \in 1..Len(hits) :
         Mapping(hits[j]) = Mapping(hits[k]) => lines[j] = lines[k]
    /\ \A j \in 1..Len(hits) :
         hits[j] = << <<"b", "2">>, <<"a", "1">> >> => lines[j] = "a=1&b=2"
    /\ Len(hits) = 0 => encoded = ""
    /\ Len(hits) = 1 => encoded = lines[1]
    /\ Len(hits) > 1 =>
         encoded = prepare_payloads_for_batch_request(SubSeq(hits, 1, Len(hits) - 1))
                     \o "\n" \o lines[Len(hits)]
    /\ Len(hits) = 2 => encoded = lines[1] \o "\n" \o lines[2]

\* two hits of one batch with the same mapping in different insertion
\* orders, the first of them {b:2, a:1}, have been encoded
C13_Witness ==
  /\ enc_pc = "encoded"
  /\ Len(hits) = 2
  /\ hits[1] = << <<"b", "2">>, <<"a", "1">> >>
  /\ hits[2] = << <<"a", "1">>, <<"b", "2">> >>
  /\ encoded = "a=1&b=2\na=1&b=2"

(***************************************************************************)
(* C17: the key set of each hit is the union of the default fields with a  *)
(* non-empty value and the columns of its row; a default field with an     *)
(* empty value is in the hit only if the row has a column of that name; on *)
(* a key that is both a default and a column the hit has the value of the  *)
(* row; and a hit holds nothing of any other row.                          *)
(***************************************************************************)
C17_HitKeys ==
  /\ Len(hits) <= Len(records)
  /\ \A j \in 1..Len(hits) :
       /\ Len(hits[j]) = Cardinality(Keys(hits[j]))
       /\ Keys(hits[j]) = {k \in Keys(hit_details) : Value(hit_details, k) # ""}
                            \cup Keys(records[j])
       /\ \A k \in Keys(hit_details) :
            (Value(hit_details, k) = "" /\ k \in Keys(hits[j])) => k \in Keys(records[j])
       /\ \A k \in Keys(records[j]) : Value(hits[j], k) = Value(records[j], k)
       /\ \A k \in Keys(hits[j]) \ Keys(records[j]) :
            Value(hits[j], k) = Value(hit_details, k)

\* a second hit has been built whose row lacks a column of the first row,
\* under defaults with an empty field the row has, a non-empty field the row
\* overrides; the hit has the row's values
C17_Witness ==
  /\ Len(hits) = 2
  /\ hit_details = << <<"a", "">>, <<"b", "big query">> >>
  /\ records[1] = << <<"b", "1">>, <<"a", "2">> >>
  /\ records[2] = <<>>
  /\ hits[1] = << <<"b", "1">>, <<"a", "2">> >>
  /\ hits[2] = << <<"b", "big query">> >>

====
